---- MODULE Spec2Model ----
(***************************************************************************)
(* The view-model controller of src/index.tsx (component App): the list of *)
(* virtual machines, the three filters, the loading flag and the error     *)
(* message, the three asynchronous operations fetchVms, handleTogglePower  *)
(* and handleConnect, and the two derived views allZones and filteredVms.  *)
(*                                                                         *)
(* JavaScript runs each handler to its next await without interruption, so *)
(* one action is the code between two awaits.  `await fetch(...)` and the  *)
(* `await response.json()` that follows it write no state in between; the  *)
(* two are resolved by one action whose input is what the network and the  *)
(* backend produced.                                                       *)
(*                                                                         *)
(* A string is a sequence of text chunks (single characters where the code *)
(* looks inside the string); null is None and a string s is Some(s).       *)
(***************************************************************************)
EXTENDS Naturals, Sequences, FiniteSets

\* ------------------------------------------------------------- bounds

\* Operations that may be in flight together (the code has no limit).
MaxInFlight == 2
\* Longest response array of the derived-view specification.
MaxVms == 3

\* ------------------------------------------------------------ strings

None == <<>>
Some(s) == <<s>>

\* JavaScript `a || b` on strings: the empty string is falsy.
OrElse(a, b) == IF a = <<>> THEN b ELSE a

\* The characters the model uses, in ascending UTF-16 code unit order.
CodeOrder ==
    << "-", "1", "2", "B", "D", "E", "T", "W",
       "a", "b", "d", "e", "o", "s", "t", "u", "w", "x" >>

Code(c) == CHOOSE i \in 1..Len(CodeOrder) : CodeOrder[i] = c

\* String.prototype.toLowerCase on one character, then on a string.
LowerChar(c) ==
    CASE c = "B" -> "b"
      [] c = "D" -> "d"
      [] c = "E" -> "e"
      [] c = "T" -> "t"
      [] c = "W" -> "w"
      [] OTHER -> c

ToLowerCase(s) == [i \in 1..Len(s) |-> LowerChar(s[i])]

\* String.prototype.includes: t occurs in s as a contiguous substring.
Includes(s, t) ==
    \E i \in 0..(Len(s) - Len(t)) : SubSeq(s, i + 1, i + Len(t)) = t

\* The comparison of Array.prototype.sort without a comparator: strings by
\* UTF-16 code units, a proper prefix before its extensions.
StrLess(a, b) ==
    \E k \in 1..(Len(b)) :
        /\ k <= Len(a) + 1
        /\ \A j \in 1..(k - 1) : a[j] = b[j]
        /\ IF k = Len(a) + 1 THEN TRUE ELSE Code(a[k]) < Code(b[k])

\* ----------------------------------------------------------- the data

\* NoFilterStatus / NoFilterZone: the sentinels of useState (lines 33, 34).
Todos == "Todos"
Todas == <<"T", "o", "d", "a", "s">>

Web == <<"W", "e", "b">>
Db == <<"d", "b">>
Us1 == <<"u", "s", "-", "1">>
Us2 == <<"u", "s", "-", "2">>
Eu == <<"E", "u">>

\* A VM as the controller reads it (ipExternal, ipInternal and machineType
\* only reach the request URL and the card).
VM(i, n, z, s) == [id |-> i, name |-> n, zoneRegion |-> z, status |-> s]

VmWeb == VM(1, Web, Us2, "Running")
VmDb == VM(2, Db, Us1, "Stopped")
VmDbOn == VM(2, Db, Us1, "Running")
VmEdge == VM(3, <<"W", "E", "B", "-", "2">>, Eu, "Provisioning")
VmBed == VM(4, <<"b", "e", "d">>, Us2, "Stopped")
VmUniverse == {VmWeb, VmDb, VmEdge, VmBed}

\* The response arrays of GET /vms the backend may send.
Snapshots == { <<>>, <<VmWeb, VmDb>>, <<VmDbOn>> }

\* Server-supplied `detail` texts of a failure body, the empty one included.
Details == { <<>>, <<"boom">> }

\* err.message of a rejected fetch() (a TypeError of the platform).
NetMessages == { <<"Failed to fetch">> }
\* err.message of a rejected response.json() (a SyntaxError of the platform).
JsonMessages == { <<"Unexpected token < in JSON">> }

\* What resolves a request: a 2xx response with a parsed body, a 2xx response
\* whose body does not parse, a non-2xx response with {detail}, a non-2xx
\* response whose body does not parse, or no response at all.
OkBody(b) == [kind |-> "ok", body |-> b]
OkBad(m) == [kind |-> "okBad", msg |-> m]
Err(d) == [kind |-> "err", detail |-> d]
ErrBad(m) == [kind |-> "errBad", msg |-> m]
Net(m) == [kind |-> "net", msg |-> m]

Failures ==
    {Err(d) : d \in Details} \cup {ErrBad(m) : m \in JsonMessages}
        \cup {Net(m) : m \in NetMessages}

GetResponsesOf(S) ==
    {OkBody(b) : b \in S} \cup {OkBad(m) : m \in JsonMessages} \cup Failures

GetResponses == GetResponsesOf(Snapshots)

\* The toggle endpoint's success body is never read.
PostResponses == {OkBody(<<>>)} \cup Failures

ConnectReply == [mensaje |-> <<"ok">>, comando_ssh |-> <<"ssh web">>]

ConnectResponses ==
    {OkBody(ConnectReply)} \cup {OkBad(m) : m \in JsonMessages} \cup Failures

\* ------------------------------------------------------ the messages

\* Line 50: the text thrown when a failure body carries no detail.
FetchGeneric == <<"Error al obtener las VMs del backend.">>
\* Line 56: the text set when the caught error carries no message.
FetchNetGeneric == <<"Error de red o del servidor al obtener VMs.">>
\* Lines 84 and 91.
ToggleGeneric(vmName) == <<"Error al cambiar el estado de ">> \o vmName \o <<".">>
\* Lines 110 and 116.
ConnectGeneric(vmName) == <<"Error al intentar conectar a ">> \o vmName \o <<".">>
\* Line 88.
ToggleAlert(vmName) ==
    <<"Operacion de cambio de estado para ">> \o vmName \o <<" completada.">>
\* Line 113.
ConnectAlert(data) == data.mensaje \o <<"\nComando: ">> \o data.comando_ssh

\* err.message of what the try block throws on a request that did not yield a
\* parsed 2xx body: new Error(errorData.detail || generic) on a failure body,
\* the platform's error when fetch() or response.json() rejects.
ThrownMessage(r, generic) ==
    IF r.kind = "err" THEN OrElse(r.detail, generic) ELSE r.msg

\* The catch blocks: setError(err.message || generic).
CaughtMessage(r, thrownGeneric, caughtGeneric) ==
    OrElse(ThrownMessage(r, thrownGeneric), caughtGeneric)

\* -------------------------------------------------------------- state

VARIABLES
    vms,            \* useState<VM[]>([])
    searchTerm,     \* useState('')
    statusFilter,   \* useState('Todos')
    zoneFilter,     \* useState('Todas')
    isLoading,      \* useState(false)
    error,          \* useState<string | null>(null)
    mounted,        \* whether the mount effect has run
    ops,            \* the calls in flight, one per slot
    fin,            \* history: what the last step did, if it resumed a call
    lastGet,        \* history: the latest outcome of GET /vms
    chain           \* history: the fetchVms calls made in a row

vars ==
    <<vms, searchTerm, statusFilter, zoneFilter, isLoading, error, mounted,
      ops, fin, lastGet, chain>>

Procs == 1..MaxInFlight

\* A slot: where its call is suspended (pc), the vmName argument, and history:
\* whether no other call was in flight since it started (solo) and the
\* fetchVms calls it made (gets).
Idle == [pc |-> "idle", name |-> <<>>, solo |-> TRUE, gets |-> 0]

\* fin after a step that resumed no call.
NoStep == [step |-> "none"]

\* chain when the last call was not a fetchVms call that ran alone.
NoChain == [n |-> 0]

InFlight == {p \in Procs : ops[p].pc # "idle"}

Quiescent == InFlight = {}

\* -------------------------------------------------------- derived views

\* new Set(...) then Array.from: first occurrences, in order.
RECURSIVE Dedupe(_)
Dedupe(s) ==
    IF s = <<>> THEN <<>>
    ELSE LET init == Dedupe(SubSeq(s, 1, Len(s) - 1))
             x == s[Len(s)]
         IN IF \E i \in 1..Len(init) : init[i] = x THEN init ELSE Append(init, x)

\* Array.prototype.sort() with the default comparison (insertion of each
\* element before the first greater one).
RECURSIVE SortStrings(_)
InsertSorted(sorted, x) ==
    LET before == {i \in 1..Len(sorted) : StrLess(x, sorted[i])}
        at == IF before = {} THEN Len(sorted) + 1
              ELSE CHOOSE i \in before : \A j \in before : i <= j
    IN SubSeq(sorted, 1, at - 1) \o <<x>> \o SubSeq(sorted, at, Len(sorted))
SortStrings(s) ==
    IF s = <<>> THEN <<>>
    ELSE InsertSorted(SortStrings(SubSeq(s, 1, Len(s) - 1)), s[Len(s)])

\* Mutant of allZonesOf: the sort left out.
allZonesOfUnsorted(v) == Dedupe([i \in 1..Len(v) |-> v[i].zoneRegion])

\* Line 40.
allZonesOf(v) == SortStrings(Dedupe([i \in 1..Len(v) |-> v[i].zoneRegion]))
allZones == allZonesOf(vms)

\* Mutant of MatchesSearch: the two toLowerCase calls left out.
MatchesSearchExact(vm, term) == Includes(vm.name, term)

\* Mutant of MatchesZone: a filter on a zone no VM is in is ignored.
MatchesZoneIfPresent(vm, zf) ==
    \/ zf = <<"T", "o", "d", "a", "s">>
    \/ vm.zoneRegion = zf
    \/ \A i \in 1..Len(vms) : vms[i].zoneRegion # zf

\* Lines 131-134, one predicate per .filter call.
MatchesSearch(vm, term) == Includes(ToLowerCase(vm.name), ToLowerCase(term))
MatchesStatus(vm, sf) == sf = Todos \/ vm.status = sf
MatchesZone(vm, zf) == zf = Todas \/ vm.zoneRegion = zf

filteredVmsOf(v, term, sf, zf) ==
    LET byName == SelectSeq(v, LAMBDA vm : MatchesSearch(vm, term))
        byStatus == SelectSeq(byName, LAMBDA vm : MatchesStatus(vm, sf))
    IN SelectSeq(byStatus, LAMBDA vm : MatchesZone(vm, zf))

filteredVms == filteredVmsOf(vms, searchTerm, statusFilter, zoneFilter)

\* Line 151: {error && <div ...>}, a null or empty error renders nothing.
BannerShown == error # None /\ error[1] # <<>>
\* Lines 153 and 174: the notice in place of the cards.
NoticeShown == Len(filteredVms) = 0 /\ ~isLoading /\ ~BannerShown

\* vms.find(v => v.id === id) of the card callbacks (lines 160, 166).
FindById(v, id) ==
    LET hits == {i \in 1..Len(v) : v[i].id = id}
    IN IF hits = {} THEN <<>>
       ELSE <<v[CHOOSE i \in hits : \A j \in hits : i <= j]>>

\* ---------------------------------------------------------- the calls

FreeSlots == {p \in Procs : ops[p].pc = "idle"}
\* The slot a new call takes (the slots are interchangeable).
FreeSlot == CHOOSE p \in FreeSlots : \A q \in FreeSlots : p <= q

\* A call starts in slot p; every call already in flight is no longer alone.
Started(p, pc, vmName, g) ==
    [q \in Procs |->
        IF q = p
        THEN [pc |-> pc, name |-> vmName, solo |-> InFlight = {}, gets |-> g]
        ELSE IF ops[q].pc = "idle" THEN ops[q]
        ELSE [ops[q] EXCEPT !.solo = FALSE]]

\* The state a step leaves.
After == [vms |-> vms', error |-> error', isLoading |-> isLoading']

\* History of the step that resumed slot p on r: the call's argument, what it
\* resumed on, the alerts it raised and the state it left.
Resumed(step, p, r, g, al) ==
    fin' = [step |-> step, name |-> ops[p].name, resp |-> r,
            solo |-> ops[p].solo, gets |-> g, alert |-> al, out |-> After]

\* History of a fetchVms call that ends having run alone: the response it
\* resumed on, the state it left, and how many such calls in a row, each
\* started with nothing in flight, resumed on that same response.
Chained(p, r) ==
    chain' = IF ~ops[p].solo THEN NoChain
             ELSE [n |-> IF chain.n > 0 /\ chain.resp = r THEN 2 ELSE 1,
                   resp |-> r, out |-> After]

\* fetchVms, lines 44-45: up to the await.
fetchVmsLoading == TRUE
fetchVmsCleared == None

\* Mutants of fetchVmsData: the new array merged into the old one by id, the
\* new array appended, and the old array kept on a failure.
fetchVmsDataMerged(r, old) ==
    IF r.kind = "ok"
    THEN old \o SelectSeq(r.body,
                          LAMBDA vm : \A i \in 1..Len(old) : old[i].id # vm.id)
    ELSE <<>>
fetchVmsDataAppended(r, old) == IF r.kind = "ok" THEN old \o r.body ELSE <<>>
fetchVmsDataStale(r, old) == IF r.kind = "ok" THEN r.body ELSE old

\* fetchVms, lines 48-57: what setVms receives.
fetchVmsData(r, old) == IF r.kind = "ok" THEN r.body ELSE <<>>

\* Mutant of fetchVmsError: a message already shown is not replaced.
fetchVmsErrorFirst(r, old) ==
    IF r.kind = "ok" \/ old # None THEN old
    ELSE Some(CaughtMessage(r, FetchGeneric, FetchNetGeneric))

\* fetchVms, lines 48-57: setError is called in the catch block only.
fetchVmsError(r, old) ==
    IF r.kind = "ok" THEN old
    ELSE Some(CaughtMessage(r, FetchGeneric, FetchNetGeneric))

\* Mutant of finallyLoading: the flag cleared at the end of the try block.
finallyOnSuccessOnly(r, old) == IF r.kind = "ok" THEN FALSE ELSE old

\* The finally blocks (lines 59, 93, 118): setIsLoading(false) whatever the
\* outcome r of the try block.
finallyLoading(r, old) == FALSE

\* useEffect(() => { fetchVms(); }, []), lines 64-66.
useEffectMount ==
    /\ ~mounted
    /\ mounted' = TRUE
    /\ isLoading' = fetchVmsLoading
    /\ error' = fetchVmsCleared
    /\ ops' = Started(FreeSlot, "fetch", <<>>, 1)
    /\ fin' = NoStep
    /\ UNCHANGED <<vms, searchTerm, statusFilter, zoneFilter, lastGet, chain>>

\* Mutant of refreshFilters: lines 126-128 not commented out.
refreshFiltersReset(old) ==
    [searchTerm |-> <<>>, statusFilter |-> "Todos",
     zoneFilter |-> <<"T", "o", "d", "a", "s">>]

\* handleRefresh, lines 125-128: the three resets are commented out, the
\* filters stay as they are.
refreshFilters(old) == old

\* handleRefresh, lines 123-129: fetchVms() and nothing else.
handleRefresh ==
    /\ mounted
    /\ FreeSlots # {}
    /\ isLoading' = fetchVmsLoading
    /\ error' = fetchVmsCleared
    /\ ops' = Started(FreeSlot, "fetch", <<>>, 1)
    /\ fin' = NoStep
    /\ chain' = IF Quiescent THEN chain ELSE NoChain
    /\ LET kept == refreshFilters([searchTerm |-> searchTerm,
                                   statusFilter |-> statusFilter,
                                   zoneFilter |-> zoneFilter])
       IN /\ searchTerm' = kept.searchTerm
          /\ statusFilter' = kept.statusFilter
          /\ zoneFilter' = kept.zoneFilter
    /\ UNCHANGED <<vms, mounted, lastGet>>

\* fetchVms resumes on the outcome of GET /vms, lines 47-60.
fetchVmsResume(p, r) ==
    /\ ops[p].pc = "fetch"
    /\ vms' = fetchVmsData(r, vms)
    /\ error' = fetchVmsError(r, error)
    /\ isLoading' = finallyLoading(r, isLoading)
    /\ ops' = [ops EXCEPT ![p] = Idle]
    /\ lastGet' = r
    /\ Resumed("fetch", p, r, ops[p].gets, <<>>)
    /\ Chained(p, r)
    /\ UNCHANGED <<searchTerm, statusFilter, zoneFilter, mounted>>

\* Mutant of toggleRefetches: the refresh moved out of the try block.
toggleRefetchesAlways(r) == TRUE

\* Mutant of toggleVms: the status flipped locally on a 2xx POST.
toggleVmsPatched(r, vmName, old) ==
    IF r.kind # "ok" THEN old
    ELSE [i \in 1..Len(old) |->
            IF old[i].name = vmName
            THEN [old[i] EXCEPT
                    !.status = IF @ = "Running" THEN "Stopped" ELSE "Running"]
            ELSE old[i]]

\* handleTogglePower, lines 82-87: fetchVms is called on a 2xx POST only.
toggleRefetches(r) == r.kind = "ok"
\* handleTogglePower has no setVms.
toggleVms(r, vmName, old) == old
\* Lines 82-91.
toggleError(r, vmName) ==
    Some(CaughtMessage(r, ToggleGeneric(vmName), ToggleGeneric(vmName)))

\* The card's onTogglePower (lines 159-164) and handleTogglePower up to its
\* await (lines 70-80).
handleTogglePower(i) ==
    /\ mounted
    /\ FreeSlots # {}
    /\ i \in 1..Len(filteredVms)
    /\ LET targetVm == FindById(vms, filteredVms[i].id)
       IN /\ targetVm # <<>>
          /\ ops' = Started(FreeSlot, "post", targetVm[1].name, 0)
    /\ isLoading' = TRUE
    /\ error' = None
    /\ fin' = NoStep
    /\ chain' = NoChain
    /\ UNCHANGED <<vms, searchTerm, statusFilter, zoneFilter, mounted, lastGet>>

\* handleTogglePower resumes on the outcome of the POST, lines 73-94: on 2xx
\* it calls fetchVms and suspends in it, otherwise it ends in catch/finally.
handleTogglePowerResume(p, r) ==
    /\ ops[p].pc = "post"
    /\ vms' = toggleVms(r, ops[p].name, vms)
    /\ IF toggleRefetches(r)
       THEN /\ isLoading' = fetchVmsLoading
            /\ error' = fetchVmsCleared
            /\ ops' = [ops EXCEPT ![p].pc = "refetch", ![p].gets = @ + 1]
            /\ Resumed("post", p, r, ops[p].gets + 1, <<>>)
       ELSE /\ isLoading' = finallyLoading(r, isLoading)
            /\ error' = toggleError(r, ops[p].name)
            /\ ops' = [ops EXCEPT ![p] = Idle]
            /\ Resumed("post", p, r, ops[p].gets, <<>>)
    /\ chain' = NoChain
    /\ UNCHANGED <<searchTerm, statusFilter, zoneFilter, mounted, lastGet>>

\* Mutant of toggleAlerts: fetchVms rethrows what it caught, so line 88 is
\* skipped when the refresh fails.
toggleAlertsOnSuccess(r, vmName) ==
    IF r.kind = "ok" THEN <<ToggleAlert(vmName)>> ELSE <<>>

\* Lines 87-88: fetchVms catches its own failure and returns, so the alert
\* follows whatever the outcome r of the refresh.
toggleAlerts(r, vmName) == <<ToggleAlert(vmName)>>

\* The awaited fetchVms of handleTogglePower resumes (lines 47-60) and
\* returns, having caught its own failure; then lines 88 and 93: the alert and
\* the finally block of a try block that ended normally.
handleTogglePowerRefetched(p, r) ==
    /\ ops[p].pc = "refetch"
    /\ vms' = fetchVmsData(r, vms)
    /\ error' = fetchVmsError(r, error)
    /\ isLoading' = finallyLoading(OkBody(<<>>), finallyLoading(r, isLoading))
    /\ ops' = [ops EXCEPT ![p] = Idle]
    /\ lastGet' = r
    /\ Resumed("refetch", p, r, ops[p].gets, toggleAlerts(r, ops[p].name))
    /\ chain' = NoChain
    /\ UNCHANGED <<searchTerm, statusFilter, zoneFilter, mounted>>

\* The card's onConnect (lines 165-170) and handleConnect up to its await
\* (lines 99-107).
handleConnect(i) ==
    /\ mounted
    /\ FreeSlots # {}
    /\ i \in 1..Len(filteredVms)
    /\ LET targetVm == FindById(vms, filteredVms[i].id)
       IN /\ targetVm # <<>>
          /\ ops' = Started(FreeSlot, "connect", targetVm[1].name, 0)
    /\ isLoading' = TRUE
    /\ error' = None
    /\ fin' = NoStep
    /\ chain' = NoChain
    /\ UNCHANGED <<vms, searchTerm, statusFilter, zoneFilter, mounted, lastGet>>

\* Mutant of connectVms: the catch block of fetchVms copied into handleConnect.
connectVmsCleared(r, old) == IF r.kind = "ok" THEN old ELSE <<>>

\* handleConnect has no setVms.
connectVms(r, old) == old
\* Lines 108-116.
connectError(r, vmName, old) ==
    IF r.kind = "ok" THEN old
    ELSE Some(CaughtMessage(r, ConnectGeneric(vmName), ConnectGeneric(vmName)))
\* Mutant of connectAlerts: the alert raised again in the finally block.
connectAlertsTwice(r) ==
    IF r.kind = "ok" THEN <<ConnectAlert(r.body), ConnectAlert(r.body)>> ELSE <<>>

\* Lines 112-113.
connectAlerts(r) == IF r.kind = "ok" THEN <<ConnectAlert(r.body)>> ELSE <<>>

\* handleConnect resumes on the outcome of the POST, lines 102-119.
handleConnectResume(p, r) ==
    /\ ops[p].pc = "connect"
    /\ vms' = connectVms(r, vms)
    /\ error' = connectError(r, ops[p].name, error)
    /\ isLoading' = finallyLoading(r, isLoading)
    /\ ops' = [ops EXCEPT ![p] = Idle]
    /\ Resumed("connect", p, r, ops[p].gets, connectAlerts(r))
    /\ chain' = NoChain
    /\ UNCHANGED <<searchTerm, statusFilter, zoneFilter, mounted, lastGet>>

\* The filter bar's setters (lines 141-145).
setSearchTerm(t) ==
    /\ mounted
    /\ searchTerm' = t
    /\ fin' = NoStep
    /\ UNCHANGED <<vms, statusFilter, zoneFilter, isLoading, error, mounted,
                   ops, lastGet, chain>>

setStatusFilter(sf) ==
    /\ mounted
    /\ statusFilter' = sf
    /\ fin' = NoStep
    /\ UNCHANGED <<vms, searchTerm, zoneFilter, isLoading, error, mounted,
                   ops, lastGet, chain>>

setZoneFilter(zf) ==
    /\ mounted
    /\ zoneFilter' = zf
    /\ fin' = NoStep
    /\ UNCHANGED <<vms, searchTerm, statusFilter, isLoading, error, mounted,
                   ops, lastGet, chain>>

\* ------------------------------------------------- the specifications

\* Lines 31-36: the state useState builds, before the mount effect.
Init ==
    /\ vms = <<>>
    /\ searchTerm = <<>>
    /\ statusFilter = Todos
    /\ zoneFilter = Todas
    /\ isLoading = FALSE
    /\ error = None
    /\ mounted = FALSE
    /\ ops = [p \in Procs |-> Idle]
    /\ fin = NoStep
    /\ lastGet = [kind |-> "none"]
    /\ chain = NoChain

\* What the user may type and select in the controller specification.
SearchTerms == { <<>>, <<"W">> }
StatusChoices == { Todos, "Stopped" }
ZoneChoices == { Todas, Us2 }

\* A call in slot p resumes on what the network delivers: G for GET /vms, T
\* for the toggle POST, C for the connect POST.
ResolveWith(p, G, T, C) ==
    \/ \E r \in G : fetchVmsResume(p, r)
    \/ \E r \in T : handleTogglePowerResume(p, r)
    \/ \E r \in G : handleTogglePowerRefetched(p, r)
    \/ \E r \in C : handleConnectResume(p, r)

Resolve(p) == ResolveWith(p, GetResponses, PostResponses, ConnectResponses)

\* The controller: calls overlap freely, up to MaxInFlight at a time.
Next ==
    \/ useEffectMount
    \/ handleRefresh
    \/ \E i \in 1..Len(filteredVms) : handleTogglePower(i)
    \/ \E i \in 1..Len(filteredVms) : handleConnect(i)
    \/ \E p \in Procs : Resolve(p)
    \/ \E t \in SearchTerms : setSearchTerm(t)
    \/ \E sf \in StatusChoices : setStatusFilter(sf)
    \/ \E zf \in ZoneChoices : setZoneFilter(zf)

Spec == Init /\ [][Next]_vars

\* The calls alone, the filters left as they start, each request resolved in
\* one way of each kind, and every request in flight eventually resolved: the
\* event loop resumes a suspended call once its promise settles.
OneOfEach ==
    { Err(<<"boom">>), ErrBad(<<"Unexpected token < in JSON">>),
      Net(<<"Failed to fetch">>) }
Settle(p) ==
    ResolveWith(p,
                {OkBody(<<VmWeb, VmDb>>), OkBad(<<"Unexpected token < in JSON">>)}
                    \cup OneOfEach,
                {OkBody(<<>>)} \cup OneOfEach,
                {OkBody(ConnectReply)} \cup OneOfEach)

CallsNext ==
    \/ useEffectMount
    \/ handleRefresh
    \/ \E i \in 1..Len(filteredVms) : handleTogglePower(i)
    \/ \E i \in 1..Len(filteredVms) : handleConnect(i)
    \/ \E p \in Procs : Settle(p)

FairSpec ==
    Init /\ [][CallsNext]_vars /\ \A p \in Procs : WF_vars(Settle(p))

\* The derived views: the filter bar at work on any array of at most MaxVms
\* machines, loaded by the fetchVms call of the mount effect.
RECURSIVE SeqsUpTo(_, _)
SeqsUpTo(S, n) ==
    IF n = 0 THEN { <<>> }
    ELSE LET shorter == SeqsUpTo(S, n - 1)
         IN shorter \cup {Append(q, x) : q \in shorter, x \in S}

ViewSearchTerms == { <<>>, <<"w", "E">>, <<"B">>, <<"e", "d">>, <<"x">> }
ViewStatusChoices == { Todos, "Running", "Stopped" }
ViewZoneChoices == { Todas, Us1, Us2, Eu }

\* The state useEffectMount and fetchVmsResume(1, OkBody(data)) lead to.
Loaded(data) ==
    LET left == [vms |-> fetchVmsData(OkBody(data), <<>>),
                 error |-> fetchVmsError(OkBody(data), fetchVmsCleared),
                 isLoading |-> finallyLoading(OkBody(data), fetchVmsLoading)]
    IN /\ vms = left.vms
       /\ error = left.error
       /\ isLoading = left.isLoading
       /\ searchTerm = <<>>
       /\ statusFilter = Todos
       /\ zoneFilter = Todas
       /\ mounted = TRUE
       /\ ops = [p \in Procs |-> Idle]
       /\ fin = [step |-> "fetch", name |-> <<>>, resp |-> OkBody(data),
                 solo |-> TRUE, gets |-> 1, alert |-> <<>>, out |-> left]
       /\ lastGet = OkBody(data)
       /\ chain = [n |-> 1, resp |-> OkBody(data), out |-> left]

ViewInit == \E data \in SeqsUpTo(VmUniverse, MaxVms) : Loaded(data)

ViewNext ==
    \/ \E t \in ViewSearchTerms : setSearchTerm(t)
    \/ \E sf \in ViewStatusChoices : setStatusFilter(sf)
    \/ \E zf \in ViewZoneChoices : setZoneFilter(zf)

ViewSpec == ViewInit /\ [][ViewNext]_vars

\* ----------------------------------------------------------- the claims

\* The last resumed step was fetchVms (called by the mount effect or the
\* refresh button, or awaited by handleTogglePower) ending on its response.
FetchStep == fin.step \in {"fetch", "refetch"}
\* ... on a response of kind k.
FetchStepOn(k) == FetchStep /\ fin.resp.kind = k

\* This step resumes a call suspended at pc and ends it.
Ends(pc) == \E p \in Procs : ops[p].pc = pc /\ ops'[p].pc = "idle"
\* This step resumes a call suspended at pc.
Leaves(pc) == \E p \in Procs : ops[p].pc = pc /\ ops'[p].pc # pc
\* This step starts a call that suspends at pc.
Enters(pc) == \E p \in Procs : ops[p].pc = "idle" /\ ops'[p].pc = pc

C2_Original ==
    FetchStepOn("err") =>
        /\ fin.out.vms = <<>>
        /\ fin.out.error = Some(fin.resp.detail)

\* C2 as amended: such a call leaves vms empty, and error equal to d when d is
\* not the empty string, and to the generic message of line 50 when it is.
C2_FailureClearsVms ==
    FetchStepOn("err") =>
        /\ fin.out.vms = <<>>
        /\ fin.out.error =
             Some(IF fin.resp.detail = <<>> THEN FetchGeneric
                  ELSE fin.resp.detail)

C2_Witness ==
    /\ fin.step = "fetch"
    /\ fin.resp = Err(<<"boom">>)
    /\ fin.out.error = Some(<<"boom">>)

\* C3: a togglePower call whose POST returned 2xx makes exactly one fetchVms
\* call, after the POST's response, and isLoading does not return to false
\* before that fetchVms has completed.
C3_RefetchBeforeLoadingClears ==
    /\ \A p \in Procs : ops[p].pc = "post" => ops[p].gets = 0
    /\ \A p \in Procs : ops[p].pc = "refetch" => ops[p].gets = 1 /\ isLoading
    /\ fin.step = "refetch" => fin.gets = 1 /\ ~fin.out.isLoading

\* C4: with no call in flight isLoading is false, every step that ends a call
\* clears isLoading, and every started call whose requests are resolved
\* comes to that end.
C4_LoadingCleared ==
    /\ [](Quiescent => ~isLoading)
    /\ [][(\E p \in Procs : ops[p].pc # "idle" /\ ops'[p].pc = "idle")
            => ~isLoading']_vars
    /\ \A p \in Procs :
         (ops[p].pc # "idle") ~> (ops[p].pc = "idle" /\ ~isLoading)

C4_Witness ==
    /\ Quiescent
    /\ fin.step = "post"
    /\ fin.resp.kind = "net"
    /\ fin.out.isLoading = FALSE

\* C5 as stated: a connect call that completes on a non-2xx response with
\* body {detail: d} leaves vms as it was and sets error to d.
C5_Original ==
    [][Ends("connect") /\ fin'.resp.kind = "err"
         => vms' = vms /\ error' = Some(fin'.resp.detail)]_vars

\* C5 as amended: no step of such a connect call writes vms, and its
\* completion sets error to d when d is not the empty string, and to the
\* generic connect message for that VM (line 110) when it is.
C5_ConnectFailure ==
    /\ [][Enters("connect") => vms' = vms]_vars
    /\ [][Ends("connect") /\ fin'.resp.kind = "err"
            => /\ vms' = vms
               /\ error' = Some(IF fin'.resp.detail = <<>>
                                THEN ConnectGeneric(fin'.name)
                                ELSE fin'.resp.detail)]_vars

C5_Witness ==
    /\ fin.step = "connect"
    /\ fin.resp = Err(<<"boom">>)
    /\ fin.out.vms = <<VmWeb, VmDb>>

\* C6: vms is always empty or the array of the latest response to GET /vms;
\* only a step that completes fetchVms writes vms, so neither togglePower nor
\* connect writes it and no status is changed locally.
C6_VmsIsServerTruth ==
    /\ [](vms = <<>> \/ (lastGet.kind = "ok" /\ vms = lastGet.body))
    /\ [][vms' # vms => Ends("fetch") \/ Ends("refetch")]_vars

C6_Witness ==
    /\ \E p \in Procs : ops[p].pc = "refetch" /\ ops[p].name = Web
    /\ vms = <<VmWeb, VmDb>>

\* Whether the name of vm contains term when case is ignored.
NameContains(vm, term) ==
    \E off \in 0..Len(vm.name) :
        /\ off + Len(term) <= Len(vm.name)
        /\ \A k \in 1..Len(term) :
             LowerChar(vm.name[off + k]) = LowerChar(term[k])

\* The VMs C7 wants shown.
Wanted(vm) ==
    /\ NameContains(vm, searchTerm)
    /\ statusFilter = "Todos" \/ vm.status = statusFilter
    /\ zoneFilter = <<"T", "o", "d", "a", "s">> \/ vm.zoneRegion = zoneFilter

\* C7: filteredVms is the subsequence of vms, in the order of vms, of the VMs
\* whose name contains searchTerm whatever the case, whose status passes
\* statusFilter and whose zone passes zoneFilter.
C7_FilteredVms ==
    LET keep == {i \in 1..Len(vms) : Wanted(vms[i])}
        n == Len(filteredVms)
    IN /\ n = Cardinality(keep)
       /\ \E at \in [1..n -> keep] :
            /\ \A j, k \in 1..n : j < k => at[j] < at[k]
            /\ \A k \in 1..n : filteredVms[k] = vms[at[k]]

C7_Witness ==
    /\ searchTerm = <<"w", "E">>
    /\ statusFilter = "Running"
    /\ zoneFilter = Us2
    /\ Len(vms) = 3
    /\ Len(filteredVms) = 1

\* a comes before b in lexicographic order of the code units.
RECURSIVE LexBefore(_, _)
LexBefore(a, b) ==
    IF b = <<>> THEN FALSE
    ELSE IF a = <<>> THEN TRUE
    ELSE IF a[1] = b[1] THEN LexBefore(Tail(a), Tail(b))
    ELSE Code(a[1]) < Code(b[1])

\* C8: allZones holds the zoneRegion values that occur in vms and no other,
\* each once, in ascending lexicographic order.
C8_AvailableZones ==
    /\ {allZones[k] : k \in 1..Len(allZones)}
         = {vms[i].zoneRegion : i \in 1..Len(vms)}
    /\ \A j, k \in 1..Len(allZones) : j < k => LexBefore(allZones[j], allZones[k])

C8_Witness ==
    /\ Len(vms) = 3
    /\ Len(allZones) = 2
    /\ vms[1].zoneRegion = Us2
    /\ vms[3].zoneRegion = Eu

\* C9: of two fetchVms calls in a row, the second started after the first
\* completed and both alone in flight, that resume on the same response, the
\* second leaves the vms, error and isLoading the first left.
C9_FetchTwice ==
    [][Ends("fetch") /\ fin'.solo /\ chain.n > 0 /\ chain.resp = fin'.resp
         => fin'.out = chain.out]_vars

C9_Witness ==
    /\ fin.step = "fetch"
    /\ chain.n = 2
    /\ chain.resp = OkBody(<<VmWeb, VmDb>>)

\* C10: a togglePower call whose POST fails ends without a fetchVms call, with
\* vms as it was and error set to the failure's message.
C10_ToggleFailure ==
    /\ [][Enters("post") => vms' = vms]_vars
    /\ [][Leaves("post") /\ fin'.resp.kind # "ok"
            => /\ Ends("post")
               /\ fin'.gets = 0
               /\ lastGet' = lastGet
               /\ vms' = vms
               /\ error' # None
               /\ LET text == IF fin'.resp.kind = "err"
                              THEN fin'.resp.detail ELSE fin'.resp.msg
                  IN error' = Some(IF text = <<>>
                                   THEN ToggleGeneric(fin'.name) ELSE text)]_vars

C10_Witness ==
    /\ fin.step = "post"
    /\ fin.resp = Err(<<>>)
    /\ fin.out.vms = <<VmWeb, VmDb>>
    /\ fin.out.error = Some(ToggleGeneric(Db))

\* The text a connect call shows for the reply body data.
Surfaced(data) == <<data.mensaje[1], "\nComando: ", data.comando_ssh[1]>>

StartsOperation ==
    \/ Enters("fetch") \/ Enters("post") \/ Enters("connect")
    \/ \E p \in Procs : ops[p].pc = "post" /\ ops'[p].pc = "refetch"

\* This step resumes a call on a request that failed.
FailureCompletes ==
    /\ \E p \in Procs : ops[p].pc # "idle" /\ ops'[p].pc = "idle"
    /\ fin'.resp.kind # "ok"

\* The message of the failure r of the call h (step kind and vmName): the
\* server's detail or the platform's error text, the operation's generic
\* message when that text is empty.
FailureMessage(h, r) ==
    LET text == IF r.kind = "err" THEN r.detail ELSE r.msg
        generic ==
            CASE h.step = "post" -> ToggleGeneric(h.name)
              [] h.step = "connect" -> ConnectGeneric(h.name)
              [] OTHER -> IF r.kind = "err" THEN FetchGeneric ELSE FetchNetGeneric
    IN IF text = <<>> THEN generic ELSE text

\* C12: every step that starts an operation sets error to none, whatever else
\* is in flight; every step that completes a failed request sets error to that
\* failure's message; no other step writes error.  So error is at every moment
\* none or the message of the failure that completed most recently.
C12_ErrorIsMostRecent ==
    /\ [][StartsOperation => error' = None]_vars
    /\ [][FailureCompletes => error' = Some(FailureMessage(fin', fin'.resp))]_vars
    /\ [][error' # error => StartsOperation \/ FailureCompletes]_vars
    /\ [](FetchStep /\ fin.resp.kind # "ok"
            => fin.out.error = Some(FailureMessage(fin, fin.resp)))

C12_Witness ==
    /\ fin.step = "connect"
    /\ fin.resp.kind = "net"
    /\ ~fin.solo
    /\ lastGet = Err(<<"boom">>)
    /\ error = Some(<<"Failed to fetch">>)

\* The fixed generic messages of the operation a step belongs to.
GenericMessages(h) ==
    CASE h.step = "post" -> {ToggleGeneric(h.name)}
      [] h.step = "connect" -> {ConnectGeneric(h.name)}
      [] OTHER -> {FetchGeneric, FetchNetGeneric}

\* C13: when a request of fetchVms, togglePower or connect fails without a
\* usable server detail (no response at all, or a non-2xx response whose body
\* does not parse), error is set to a fixed generic message of that operation
\* and to no other text.
C13_GenericWithoutDetail ==
    (fin.step # "none" /\ fin.resp.kind \in {"net", "errBad"})
        => \E m \in GenericMessages(fin) : fin.out.error = Some(m)

\* C14: of two overlapping fetchVms calls, the one that resumes last decides
\* the final vms and error, whichever was called first: when the last step
\* resumed one of them and this step resumes the other, alone in flight, vms
\* and error become what this step's response says (the array and no error,
\* or no VMs and the failure's message).
C14_LastResponseWins ==
    [][/\ fin.step = "fetch"
       /\ Cardinality(InFlight) = 1
       /\ Ends("fetch")
       => /\ vms' = IF fin'.resp.kind = "ok" THEN fin'.resp.body ELSE <<>>
          /\ error' = IF fin'.resp.kind = "ok" THEN None
                      ELSE Some(FailureMessage(fin', fin'.resp))]_vars

\* C15: whenever a call (the initial load, a refresh, a togglePower up to its
\* acknowledgment, or a connect) has started and not yet ended, isLoading is
\* true.
C15_LoadingWhileInFlight == InFlight # {} => isLoading

\* C16: with no call in flight, when the latest fetch succeeded and
\* filteredVms is empty the 'no matches' notice is shown and the error banner
\* is not; when the latest fetch failed the error banner is shown and the
\* notice is not; the two are never shown together.
C16_NoticeOrBanner ==
    Quiescent =>
        /\ (lastGet.kind = "ok" /\ filteredVms = <<>>)
             => (NoticeShown /\ ~BannerShown)
        /\ lastGet.kind \in {"okBad", "err", "errBad", "net"}
             => (BannerShown /\ ~NoticeShown)
        /\ ~(NoticeShown /\ BannerShown)

\* This step completes a fetchVms call on a 2xx response whose array has no VM
\* in the zone zoneFilter holds.
ZoneDisappears ==
    /\ Ends("fetch") \/ Ends("refetch")
    /\ fin'.resp.kind = "ok"
    /\ zoneFilter # <<"T", "o", "d", "a", "s">>
    /\ \A i \in 1..Len(fin'.resp.body) : fin'.resp.body[i].zoneRegion # zoneFilter

Acknowledgment(vmName) ==
    <<"Operacion de cambio de estado para ">> \o vmName \o <<" completada.">>

\* C18: a togglePower call whose POST returned 2xx raises no alert on that
\* response and awaits the refresh; the step that completes the refresh,
\* on a success or on a failure, raises the acknowledgment once and ends the
\* call; no other step raises it.  When the refresh failed, the
\* acknowledgment is raised with vms empty and error holding the fetch's
\* failure message, never togglePower's own.
C18_AcknowledgedAfterRefetch ==
    /\ [][Leaves("post") /\ fin'.resp.kind = "ok"
            => /\ fin'.alert = <<>>
               /\ \E p \in Procs : ops[p].pc = "post" /\ ops'[p].pc = "refetch"]_vars
    /\ [][Leaves("refetch")
            => /\ Ends("refetch")
               /\ fin'.alert = <<Acknowledgment(fin'.name)>>
               /\ fin'.gets = 1]_vars
    /\ [][(fin'.step # "none" /\ ~Leaves("refetch"))
            => \A k \in 1..Len(fin'.alert) :
                 fin'.alert[k] # Acknowledgment(fin'.name)]_vars
    /\ [][Ends("refetch") /\ fin'.resp.kind # "ok"
            => /\ vms' = <<>>
               /\ error' = Some(FailureMessage(fin', fin'.resp))
               /\ error' # Some(ToggleGeneric(fin'.name))]_vars
    /\ [][Ends("refetch") /\ fin'.resp.kind = "ok"
            => vms' = fin'.resp.body /\ error' = error]_vars

C18_Witness ==
    /\ fin.step = "refetch"
    /\ fin.name = Web
    /\ fin.resp = Err(<<"boom">>)
    /\ fin.alert = <<Acknowledgment(Web)>>
    /\ vms = <<>>
    /\ error = Some(<<"boom">>)

\* The three filters.
Filters == <<searchTerm, statusFilter, zoneFilter>>

\* C19: the filters start at '', 'Todos' and 'Todas'; no step of fetchVms,
\* togglePower, connect or refresh (a step that starts, resumes or ends a call)
\* changes a filter; a step that changes a filter starts and resumes no call
\* and leaves vms, isLoading and error as they were.
C19_FiltersFrame ==
    /\ Filters = << <<>>, "Todos", <<"T", "o", "d", "a", "s">> >>
    /\ [][ops' # ops => Filters' = Filters]_vars
    /\ [][Filters' # Filters
            => /\ ops' = ops
               /\ lastGet' = lastGet
               /\ vms' = vms
               /\ isLoading' = isLoading
               /\ error' = error]_vars

C19_Witness ==
    /\ fin.step = "fetch"
    /\ chain.n = 2
    /\ Filters = << <<"W">>, "Stopped", Us2 >>
    /\ Quiescent

====
